---- MODULE Spec2Model ----
(***************************************************************************)
(* The dispatch facade of emma2.msm.analysis (api.py) over its dense and   *)
(* sparse backends, and the MemoryStorage transformer of the feature       *)
(* reader test.  Numbers are exact rationals [n, d]; a matrix is either a  *)
(* dense array, a sparse matrix holding only its nonzero entries, or an    *)
(* object that is neither (a plain list of lists).                         *)
(***************************************************************************)
EXTENDS Integers, Sequences, FiniteSets, TLC

VARIABLES
    A,                    \* the caller's logical matrix (rows of rationals)
    type_not_supported,   \* the module-level exception object of api.py
    pc,                   \* the caller: "idle" or "returned"
    last,                 \* the call that just returned: op, T, args, calls, outcome
    shared_raised,        \* history: an earlier call raised the module-level error
    lag,                  \* MemoryStorage: lag of the transformer
    chunksize,            \* MemoryStorage: chunk size of every stage
    nframes,              \* number of frames of the trajectory
    pos,                  \* parametrize: first frame of the next chunk
    lagged_chunks,        \* MemoryStorage.lagged_chunks
    final,                \* MemoryStorage.final
    param_finished,       \* MemoryStorage._param_finished
    delivered             \* chunks handed to param_add_data so far: [Y, last_chunk]

fvars == <<A, type_not_supported, pc, last, shared_raised>>
tvars == <<lag, chunksize, nframes, pos, lagged_chunks, final, param_finished, delivered>>
vars == <<A, type_not_supported, pc, last, shared_raised, lag, chunksize, nframes, pos,
          lagged_chunks, final, param_finished, delivered>>

\* ---------------------------------------------------------------- bounds
Dim == 2          \* states of the chain
MaxN == 2         \* largest number of steps N
MaxLag == 3       \* largest lag
MaxChunk == 5     \* largest chunk size
ExtraFrames == 3  \* frames of the trajectory beyond lag + chunksize

\* ---------------------------------------------------------------- numbers
None == [t |-> "none"]

Abs(x) == IF x < 0 THEN -x ELSE x

RECURSIVE GCD(_, _)
GCD(a, b) == IF b = 0 THEN a ELSE GCD(b, a % b)

Rat(n, d) ==
    LET g == GCD(Abs(n), Abs(d))
        s == IF d < 0 THEN -1 ELSE 1
    IN  [n |-> (s * n) \div g, d |-> (s * d) \div g]

RZero == [n |-> 0, d |-> 1]
ROne == [n |-> 1, d |-> 1]
RInt(k) == [n |-> k, d |-> 1]
RAdd(x, y) == Rat(x.n * y.d + y.n * x.d, x.d * y.d)
RNeg(x) == [n |-> -x.n, d |-> x.d]
RSub(x, y) == RAdd(x, RNeg(y))
RMul(x, y) == Rat(x.n * y.n, x.d * y.d)
RDiv(x, y) == Rat(x.n * y.d, x.d * y.n)
RAbs(x) == [n |-> Abs(x.n), d |-> x.d]
RLe(x, y) == x.n * y.d <= y.n * x.d
RLt(x, y) == x.n * y.d < y.n * x.d

RECURSIVE RSumSeq(_)
RSumSeq(s) == IF s = <<>> THEN RZero ELSE RAdd(Head(s), RSumSeq(Tail(s)))

RECURSIVE RSumSet(_)
RSumSet(S) ==
    IF S = {} THEN RZero
    ELSE LET e == CHOOSE x \in S : TRUE IN RAdd(e[3], RSumSet(S \ {e}))

\* ---------------------------------------------------------------- matrices
Idx(n) == 1..n

ZeroRows(n) == [i \in Idx(n) |-> [j \in Idx(n) |-> RZero]]
IdentityRows(n) == [i \in Idx(n) |-> [j \in Idx(n) |-> IF i = j THEN ROne ELSE RZero]]

\* numpy.ndarray
Dense(rows) == [kind |-> "dense", a |-> rows]
\* scipy.sparse matrix: only the nonzero entries are stored
Sparse(rows) ==
    [kind |-> "sparse", shape |-> Len(rows),
     data |-> {<<i, j, rows[i][j]>> : i \in Idx(Len(rows)), j \in Idx(Len(rows))}
              \ {<<i, j, RZero>> : i \in Idx(Len(rows)), j \in Idx(Len(rows))}]
\* anything else, here a list of lists
Other(rows) == [kind |-> "list", a |-> rows]

AsRep(rows, rep) ==
    IF rep = "sparse" THEN Sparse(rows)
    ELSE IF rep = "dense" THEN Dense(rows)
    ELSE Other(rows)

issparse(T) == T.kind = "sparse"
isdense(T) == T.kind = "dense"

SpGet(T, i, j) ==
    IF \E e \in T.data : e[1] = i /\ e[2] = j
    THEN (CHOOSE e \in T.data : e[1] = i /\ e[2] = j)[3]
    ELSE RZero

\* csr_matrix(T) of a dense array and T.toarray() of a sparse matrix
toarray(T) == [i \in Idx(T.shape) |-> [j \in Idx(T.shape) |-> SpGet(T, i, j)]]
Rows(T) == IF issparse(T) THEN toarray(T) ELSE T.a
csr_matrix(T) == IF issparse(T) THEN T ELSE Sparse(T.a)

VecMat(p, rows) ==
    [j \in Idx(Len(rows)) |-> RSumSeq([i \in Idx(Len(rows)) |-> RMul(p[i], rows[i][j])])]
DiagMat(p, rows) ==
    [i \in Idx(Len(rows)) |-> [j \in Idx(Len(rows)) |-> RMul(p[i], rows[i][j])]]
MatAdd(X, Y) == [i \in Idx(Len(X)) |-> [j \in Idx(Len(X)) |-> RAdd(X[i][j], Y[i][j])]]
MatTimes(c, X) == [i \in Idx(Len(X)) |-> [j \in Idx(Len(X)) |-> RMul(c, X[i][j])]]

\* ---------------------------------------------------------------- values
BoolV(b) == [t |-> "bool", v |-> b]
VecV(p) == [t |-> "vector", v |-> p]
MatV(T) == [t |-> "matrix", v |-> T]
EigV(what, rows, opts) == [t |-> what, v |-> [of |-> rows, opts |-> opts]]

Exc(type, msg) == [t |-> "exc", type |-> type, msg |-> msg]
Return(v) == [kind |-> "return", value |-> v, exc |-> None]
Raise(e) == [kind |-> "raise", value |-> None, exc |-> e]

\* ---------------------------------------------------------------- Validator
\* dense: every row of the array sums to 1 within tol, every entry >= -tol
dense_is_transition_matrix(T, tol) ==
    /\ \A i \in Idx(Len(T.a)) : RLe(RAbs(RSub(RSumSeq(T.a[i]), ROne)), tol)
    /\ \A i \in Idx(Len(T.a)) : \A j \in Idx(Len(T.a)) : RLe(RNeg(tol), T.a[i][j])

\* sparse: the same over the stored entries only
sparse_is_transition_matrix(T, tol) ==
    /\ \A i \in Idx(T.shape) :
          RLe(RAbs(RSub(RSumSet({e \in T.data : e[1] = i}), ROne)), tol)
    /\ \A e \in T.data : RLe(RNeg(tol), e[3])

dense_is_rate_matrix(K, tol) ==
    /\ \A i \in Idx(Len(K.a)) : RLe(RAbs(RSumSeq(K.a[i])), tol)
    /\ \A i \in Idx(Len(K.a)) : \A j \in Idx(Len(K.a)) :
          i # j => RLe(RNeg(tol), K.a[i][j])

sparse_is_rate_matrix(K, tol) ==
    /\ \A i \in Idx(K.shape) : RLe(RAbs(RSumSet({e \in K.data : e[1] = i})), tol)
    /\ \A e \in K.data : e[1] # e[2] => RLe(RNeg(tol), e[3])

\* the directed graph of the entries above tolerance
Edges(T, tol) == {<<e[1], e[2]>> : e \in {x \in T.data : RLt(tol, RAbs(x[3]))}}

Succ(E, S) == {e[2] : e \in {x \in E : x[1] \in S}}

RECURSIVE StepsFrom(_, _, _)
StepsFrom(E, S, k) == IF k = 0 THEN S ELSE StepsFrom(E, Succ(E, S), k - 1)

RECURSIVE Reachable(_, _, _)
Reachable(E, S, k) == IF k = 0 THEN S ELSE Reachable(E, S \cup Succ(E, S), k - 1)

StronglyConnected(E, n) == \A i \in Idx(n) : Reachable(E, {i}, n) = Idx(n)

RECURSIVE GCDSet(_)
GCDSet(S) ==
    IF S = {} THEN 0 ELSE LET k == CHOOSE x \in S : TRUE IN GCD(k, GCDSet(S \ {k}))

\* gcd of the lengths of the closed walks through state 1
Period(E, n) == GCDSet({k \in 1..(3 * n) : 1 \in StepsFrom(E, {1}, k)})

\* sparse.assessment.is_ergodic converts its argument to sparse storage itself
sparse_is_ergodic(T, tol) ==
    LET S == csr_matrix(T)
        E == Edges(S, tol)
    IN  StronglyConnected(E, S.shape) /\ Period(E, S.shape) = 1

\* ---------------------------------------------------------------- Spectral Engine
Minor(M, r, c) ==
    [i \in Idx(Len(M) - 1) |->
        [j \in Idx(Len(M) - 1) |->
            M[IF i < r THEN i ELSE i + 1][IF j < c THEN j ELSE j + 1]]]

RECURSIVE Det(_)
Det(M) ==
    IF Len(M) = 0 THEN ROne
    ELSE RSumSeq([j \in Idx(Len(M)) |->
            RMul(IF j % 2 = 1 THEN M[1][j] ELSE RNeg(M[1][j]), Det(Minor(M, 1, j)))])

IMinus(rows) ==
    [i \in Idx(Len(rows)) |-> [j \in Idx(Len(rows)) |->
        RSub(IF i = j THEN ROne ELSE RZero, rows[i][j])]]

\* the left eigenvector of eigenvalue 1: absolute values, normalised to sum 1;
\* undefined when eigenvalue 1 is absent or degenerate
LeftOne(rows) == [i \in Idx(Len(rows)) |-> RAbs(Det(Minor(IMinus(rows), i, i)))]

HasMu(rows) == Det(IMinus(rows)) = RZero /\ RSumSeq(LeftOne(rows)) # RZero

Mu(rows) ==
    [i \in Idx(Len(rows)) |-> RDiv(LeftOne(rows)[i], RSumSeq(LeftOne(rows)))]

dense_mu(T) == Mu(T.a)
sparse_mu(T) == Mu(toarray(T))

\* ---------------------------------------------------------------- Validator (ctd)
\* mu[i]*T[i,j] = mu[j]*T[j,i] within tol, for all i, j
dense_is_reversible(T, mu, tol) ==
    \A i \in Idx(Len(T.a)) : \A j \in Idx(Len(T.a)) :
        RLe(RAbs(RSub(RMul(mu[i], T.a[i][j]), RMul(mu[j], T.a[j][i]))), tol)

\* the same over the stored entries: an entry that is not stored is 0
sparse_is_reversible(T, mu, tol) ==
    \A i \in Idx(T.shape) : \A j \in Idx(T.shape) :
        RLe(RAbs(RSub(RMul(mu[i], SpGet(T, i, j)), RMul(mu[j], SpGet(T, j, i)))), tol)

\* ---------------------------------------------------------------- Propagator
\* p_{k+1} = p_k T, EC += diag(p_k) T, N times from p_0 = p0 and EC = 0
RECURSIVE Propagate(_, _, _, _)
Propagate(p, rows, EC, k) ==
    IF k = 0 THEN EC
    ELSE Propagate(VecMat(p, rows), rows, MatAdd(EC, DiagMat(p, rows)), k - 1)

dense_expected_counts(p0, T, N) == Dense(Propagate(p0, T.a, ZeroRows(Len(T.a)), N))
sparse_expected_counts(p0, T, N) ==
    Sparse(Propagate(p0, toarray(T), ZeroRows(T.shape), N))

\* ---------------------------------------------------------------- backends
Call(backend, op, args) == [backend |-> backend, op |-> op, args |-> args]

ConvergenceError == Exc("ConvergenceError", "eigensolver did not converge")
PreconditionError == Exc("PreconditionError", "no stationary distribution")
WrongStorage == Exc("AttributeError", "matrix of the other representation")

\* is_reversible of either backend; mu = None is derived by the Spectral Engine
Reversible(c, env) ==
    LET T == c.args.T
        rows == Rows(T)
        tm == IF c.backend = "sparse"
              THEN sparse_is_transition_matrix(T, c.args.tol)
              ELSE dense_is_transition_matrix(T, c.args.tol)
        mu == IF c.args.mu.t = "none"
              THEN (IF c.backend = "sparse" THEN sparse_mu(T) ELSE dense_mu(T))
              ELSE c.args.mu.v
    IN  IF c.args.mu.t = "none" /\ (~tm \/ ~HasMu(rows)) THEN Raise(PreconditionError)
        ELSE IF c.args.mu.t = "none" /\ ~env.converges THEN Raise(ConvergenceError)
        ELSE Return(BoolV(IF c.backend = "sparse"
                          THEN sparse_is_reversible(T, mu, c.args.tol)
                          ELSE dense_is_reversible(T, mu, c.args.tol)))

\* what the backend operation named by call c does: its return value or its error
Invoke(c, env) ==
    LET T == c.args.T
        sp == c.backend = "sparse"
    IN  IF c.op = "assessment.is_ergodic" /\ sp
        THEN Return(BoolV(sparse_is_ergodic(T, c.args.tol)))
        ELSE IF (sp /\ ~issparse(T)) \/ (~sp /\ ~isdense(T)) THEN Raise(WrongStorage)
        ELSE IF c.op = "assessment.is_transition_matrix"
        THEN Return(BoolV(IF sp THEN sparse_is_transition_matrix(T, c.args.tol)
                                ELSE dense_is_transition_matrix(T, c.args.tol)))
        ELSE IF c.op = "assessment.is_rate_matrix"
        THEN Return(BoolV(IF sp THEN sparse_is_rate_matrix(T, c.args.tol)
                                ELSE dense_is_rate_matrix(T, c.args.tol)))
        ELSE IF c.op = "assessment.is_reversible" THEN Reversible(c, env)
        ELSE IF c.op = "expectations.expected_counts"
        THEN Return(MatV(IF sp THEN sparse_expected_counts(c.args.p0, T, c.args.N)
                               ELSE dense_expected_counts(c.args.p0, T, c.args.N)))
        ELSE IF ~env.converges THEN Raise(ConvergenceError)
        ELSE IF c.op = "decomposition.mu"
        THEN (IF HasMu(Rows(T))
              THEN Return(VecV(IF sp THEN sparse_mu(T) ELSE dense_mu(T)))
              ELSE Raise(ConvergenceError))
        ELSE IF c.op = "decomposition.eigenvalues"
        THEN Return(EigV("eigenvalues", Rows(T), [k |-> c.args.k]))
        ELSE IF c.op = "decomposition.eigenvectors"
        THEN Return(EigV("eigenvectors", Rows(T), [k |-> c.args.k, right |-> c.args.right]))
        ELSE Return(EigV("rdl", Rows(T), [k |-> c.args.k, norm |-> c.args.norm]))

\* ---------------------------------------------------------------- api.py
\* _type_not_supported as the module is loaded
TypeNotSupported ==
    Exc("TypeError", "given matrix is not a numpy.ndarray or a scipy.sparse matrix.")

\* What a facade call did: the backend calls it made, how it ended, and the
\* module-level exception object afterwards.
Done(calls, outcome, tns) == [calls |-> calls, outcome |-> outcome, module |-> tns]

\* return backend(...)
ReturnCall(c, env, tns) == Done(<<c>>, Invoke(c, env), tns)

\* backend(...) as a statement, then the end of the function: None unless it raised
CallOnly(c, env, tns) ==
    LET o == Invoke(c, env)
    IN  Done(<<c>>, IF o.kind = "raise" THEN o ELSE Return(None), tns)

\* raise _type_not_supported: the module's one exception object is raised as it is
RaiseSharedAnnotating(tns) ==
    LET e == [tns EXCEPT !.msg = "raised before"] IN Done(<<>>, Raise(e), e)
RaiseShared(tns) == Done(<<>>, Raise(tns), tns)

\* _type_not_supported as an expression statement, then the end of the function
NameOnly(tns) == Done(<<>>, Return(None), tns)

is_transition_matrix(T, tol, env, tns) ==
    IF issparse(T)
    THEN ReturnCall(Call("sparse", "assessment.is_transition_matrix",
                         [T |-> T, tol |-> tol]), env, tns)
    ELSE IF isdense(T)
    THEN ReturnCall(Call("dense", "assessment.is_transition_matrix",
                         [T |-> T, tol |-> tol]), env, tns)
    ELSE Done(<<>>, Raise(Exc("TypeError",
                 "T is not a numpy.ndarray or a scipy.sparse matrix.")), tns)

is_rate_matrix(K, tol, env, tns) ==
    IF issparse(K)
    THEN ReturnCall(Call("sparse", "assessment.is_rate_matrix",
                         [T |-> K, tol |-> tol]), env, tns)
    ELSE IF isdense(K)
    THEN ReturnCall(Call("dense", "assessment.is_rate_matrix",
                         [T |-> K, tol |-> tol]), env, tns)
    ELSE RaiseShared(tns)

is_ergodic(T, tol, env, tns) ==
    IF issparse(T) \/ isdense(T)
    THEN CallOnly(Call("sparse", "assessment.is_ergodic", [T |-> T, tol |-> tol]),
                  env, tns)
    ELSE RaiseShared(tns)

is_reversible(T, mu, tol, env, tns) ==
    IF issparse(T)
    THEN CallOnly(Call("sparse", "assessment.is_reversible",
                       [T |-> T, mu |-> mu, tol |-> tol]), env, tns)
    ELSE IF isdense(T)
    THEN CallOnly(Call("dense", "assessment.is_reversible",
                       [T |-> T, mu |-> mu, tol |-> tol]), env, tns)
    ELSE RaiseShared(tns)

stationary_distribution(T, env, tns) ==
    IF issparse(T)
    THEN ReturnCall(Call("sparse", "decomposition.mu", [T |-> T]), env, tns)
    ELSE IF isdense(T)
    THEN ReturnCall(Call("dense", "decomposition.mu", [T |-> T]), env, tns)
    ELSE RaiseShared(tns)

eigenvaluesRetrying(T, k, env, tns) ==
    LET first == Call(IF issparse(T) THEN "sparse" ELSE "dense",
                      "decomposition.eigenvalues", [T |-> T, k |-> k])
        again == Call("dense", "decomposition.eigenvalues",
                      [T |-> Dense(Rows(T)), k |-> k])
    IN  IF ~issparse(T) /\ ~isdense(T) THEN RaiseShared(tns)
        ELSE IF Invoke(first, env).kind = "raise"
        THEN Done(<<first, again>>, Invoke(again, [converges |-> TRUE]), tns)
        ELSE Done(<<first>>, Invoke(first, env), tns)
eigenvalues(T, k, env, tns) ==
    IF issparse(T)
    THEN ReturnCall(Call("sparse", "decomposition.eigenvalues",
                         [T |-> T, k |-> k]), env, tns)
    ELSE IF isdense(T)
    THEN ReturnCall(Call("dense", "decomposition.eigenvalues",
                         [T |-> T, k |-> k]), env, tns)
    ELSE RaiseShared(tns)

eigenvectors(T, k, right, env, tns) ==
    IF issparse(T)
    THEN ReturnCall(Call("sparse", "decomposition.eigenvectors",
                         [T |-> T, k |-> k, right |-> right]), env, tns)
    ELSE IF isdense(T)
    THEN ReturnCall(Call("dense", "decomposition.eigenvectors",
                         [T |-> T, k |-> k, right |-> right]), env, tns)
    ELSE RaiseShared(tns)

rdl_decomposition(T, k, norm, env, tns) ==
    IF issparse(T)
    THEN ReturnCall(Call("sparse", "decomposition.rdl_decomposition",
                         [T |-> T, k |-> k, norm |-> norm]), env, tns)
    ELSE IF isdense(T)
    THEN ReturnCall(Call("dense", "decomposition.rdl_decomposition",
                         [T |-> T, k |-> k, norm |-> norm]), env, tns)
    ELSE RaiseShared(tns)

expected_countsDropping(p0, T, N, env, tns) ==
    IF issparse(T)
    THEN CallOnly(Call("sparse", "expectations.expected_counts",
                       [T |-> T, p0 |-> p0, N |-> N]), env, tns)
    ELSE IF isdense(T)
    THEN CallOnly(Call("dense", "expectations.expected_counts",
                       [T |-> T, p0 |-> p0, N |-> N]), env, tns)
    ELSE NameOnly(tns)
expected_counts(p0, T, N, env, tns) ==
    IF issparse(T)
    THEN ReturnCall(Call("sparse", "expectations.expected_counts",
                         [T |-> T, p0 |-> p0, N |-> N]), env, tns)
    ELSE IF isdense(T)
    THEN ReturnCall(Call("dense", "expectations.expected_counts",
                         [T |-> T, p0 |-> p0, N |-> N]), env, tns)
    ELSE NameOnly(tns)

expected_counts_stationary(P, N, mu, env, tns) ==
    IF issparse(P)
    THEN Done(<<>>, Raise(Exc("TypeError", "Not implmented for sparse matrices")), tns)
    ELSE IF isdense(P)
    THEN Done(<<>>, Raise(Exc("TypeError", "Not implmented for dense matrices")), tns)
    ELSE NameOnly(tns)

\* tol=1e-15, the default of is_transition_matrix: below every entry of the model
DefaultTol == RZero

\* the object TPT(T, A, B) of _impl
TPT(T, SA, SB) == [t |-> "TPT", v |-> [T |-> T, A |-> SA, B |-> SB]]

\* What tpt did: as Done, with the steps it took in their order.
Steps(r, outcome, events) ==
    [calls |-> r.calls, outcome |-> outcome, module |-> r.module, events |-> events]

tptAskingSolverFirst(T, SA, SB, stallone_available, env, tns) ==
    LET chk == is_transition_matrix(T, DefaultTol, env, tns)
    IN  IF ~stallone_available
        THEN Steps(Done(<<>>, None, tns),
                   Raise(Exc("NotImplementedError", "currently only available in stallone")),
                   <<"stallone_available">>)
        ELSE IF chk.outcome.kind = "raise"
        THEN Steps(chk, chk.outcome, <<"stallone_available", "is_transition_matrix">>)
        ELSE IF ~chk.outcome.value.v
        THEN Steps(chk, Raise(Exc("ValueError", "given matrix T is not a transition matrix")),
                   <<"stallone_available", "is_transition_matrix">>)
        ELSE Steps(chk, Return(TPT(T, SA, SB)),
                   <<"stallone_available", "is_transition_matrix", "TPT">>)
tpt(T, SA, SB, stallone_available, env, tns) ==
    LET chk == is_transition_matrix(T, DefaultTol, env, tns)
    IN  IF chk.outcome.kind = "raise"
        THEN Steps(chk, chk.outcome, <<"is_transition_matrix">>)
        ELSE IF ~chk.outcome.value.v
        THEN Steps(chk, Raise(Exc("ValueError", "given matrix T is not a transition matrix")),
                   <<"is_transition_matrix">>)
        ELSE IF stallone_available
        THEN Steps(chk, Return(TPT(T, SA, SB)),
                   <<"is_transition_matrix", "stallone_available", "TPT">>)
        ELSE Steps(chk, Raise(Exc("NotImplementedError",
                                  "currently only available in stallone")),
                   <<"is_transition_matrix", "stallone_available">>)

\* ---------------------------------------------------------------- MemoryStorage
\* frame t of the test trajectory: 2 atoms with 3 coordinates, numbered through
Frame(t) == [i \in 1..6 |-> 6 * t + i - 1]

\* frames from..to-1 of a trajectory of n frames
Slice(from, to, n) ==
    [i \in 1..((IF to < n THEN to ELSE n) - (IF from < n THEN from ELSE n)) |->
        Frame(from + i - 1)]

\* MemoryStorage.param_add_data(X, itraj, t, ..., last_chunk, ipass, Y)
param_add_dataPrepending(self, Y, last_chunk) ==
    LET chunks == <<Y>> \o self.lagged_chunks
    IN  IF last_chunk
        THEN [lagged_chunks |-> chunks, final |-> chunks, param_finished |-> TRUE]
        ELSE [self EXCEPT !.lagged_chunks = chunks]
param_add_data(self, Y, last_chunk) ==
    LET chunks == Append(self.lagged_chunks, Y)
    IN  IF last_chunk
        THEN [lagged_chunks |-> chunks, final |-> chunks, param_finished |-> TRUE]
        ELSE [self EXCEPT !.lagged_chunks = chunks]

\* one round of Transformer.parametrize: the reader hands over the chunk at pos and
\* the chunk lag frames later; the chunk reaching the end of the trajectory is the last
LaggedChunk == Slice(pos + lag, pos + lag + chunksize, nframes)
IsLastChunk == pos + chunksize >= nframes

\* ---------------------------------------------------------------- inputs
Reps == {"dense", "sparse", "list"}
Tols == {RZero, Rat(1, 2)}
Envs == [converges : BOOLEAN]
Calm == [converges |-> TRUE]
\* sets of state labels for tpt
StateSets == {{1}, {Dim}}
Ks == {None, [t |-> "int", v |-> 1]}
Norms == {"standard", "reversible"}
Ns == 0..MaxN

\* rows of entries 0, 1/2 and 1 that sum to 1
Half == Rat(1, 2)
StochasticRows == {r \in [Idx(Dim) -> {RZero, Half, ROne}] : RSumSeq(r) = ROne}
StochasticMatrices == [Idx(Dim) -> StochasticRows]
\* chains that jump to one state for certain
UnitRows == {r \in StochasticRows : \E j \in Idx(Dim) : r[j] = ROne}
DeterministicMatrices == [Idx(Dim) -> UnitRows]
\* K = T - I is a rate matrix
RateMatrices ==
    {[i \in Idx(Dim) |-> [j \in Idx(Dim) |->
        IF i = j THEN RSub(M[i][j], ROne) ELSE M[i][j]]] : M \in DeterministicMatrices}
\* one entry too large by 1/2: a transition matrix only within tolerance
PerturbedMatrices ==
    {[M EXCEPT ![1][1] = RAdd(@, Half)] : M \in DeterministicMatrices}
InputMatrices == StochasticMatrices \cup RateMatrices \cup PerturbedMatrices

\* probability vectors: the unit vectors and the uniform one
Vectors ==
    {[j \in Idx(Dim) |-> IF j = i THEN ROne ELSE RZero] : i \in Idx(Dim)}
    \cup {[j \in Idx(Dim) |-> Rat(1, Dim)]}
\* the stationary vector of the matrix, where it has one, and the vectors above
MuArgs(rows) ==
    {None} \cup {VecV(p) : p \in Vectors}
    \cup (IF HasMu(rows) THEN {VecV(Mu(rows))} ELSE {})

\* ---------------------------------------------------------------- the caller
NoCall == [op |-> "none"]

IdleStorage ==
    /\ lag = 0
    /\ chunksize = 100
    /\ nframes = 0
    /\ pos = 0
    /\ lagged_chunks = <<>>
    /\ final = None
    /\ param_finished = FALSE
    /\ delivered = <<>>

Init ==
    /\ A \in InputMatrices
    /\ type_not_supported = TypeNotSupported
    /\ pc = "idle"
    /\ last = NoCall
    /\ shared_raised = FALSE
    /\ IdleStorage

\* the call returns or raises: the caller holds its outcome
Finish(op, T, args, env, r) ==
    /\ last' = [op |-> op, T |-> T, args |-> args, env |-> env,
                calls |-> r.calls, outcome |-> r.outcome]
    /\ type_not_supported' = r.module
    /\ pc' = "returned"
    /\ UNCHANGED <<A, shared_raised, lag, chunksize, nframes, pos, lagged_chunks,
                   final, param_finished, delivered>>

CallIsTransitionMatrix ==
    /\ pc = "idle"
    /\ \E rep \in Reps, tol \in Tols :
          LET T == AsRep(A, rep)
          IN  Finish("is_transition_matrix", T, [tol |-> tol], Calm,
                     is_transition_matrix(T, tol, Calm, type_not_supported))

CallIsRateMatrix ==
    /\ pc = "idle"
    /\ \E rep \in Reps, tol \in Tols :
          LET T == AsRep(A, rep)
          IN  Finish("is_rate_matrix", T, [tol |-> tol], Calm,
                     is_rate_matrix(T, tol, Calm, type_not_supported))

CallIsErgodic ==
    /\ pc = "idle"
    /\ \E rep \in Reps, tol \in Tols :
          LET T == AsRep(A, rep)
          IN  Finish("is_ergodic", T, [tol |-> tol], Calm,
                     is_ergodic(T, tol, Calm, type_not_supported))

CallIsReversible ==
    /\ pc = "idle"
    /\ \E rep \in Reps, mu \in MuArgs(A), tol \in Tols, env \in Envs :
          LET T == AsRep(A, rep)
          IN  Finish("is_reversible", T, [mu |-> mu, tol |-> tol], env,
                     is_reversible(T, mu, tol, env, type_not_supported))

CallStationaryDistribution ==
    /\ pc = "idle"
    /\ \E rep \in Reps, env \in Envs :
          LET T == AsRep(A, rep)
          IN  Finish("stationary_distribution", T, <<>>, env,
                     stationary_distribution(T, env, type_not_supported))

CallEigenvalues ==
    /\ pc = "idle"
    /\ \E rep \in Reps, k \in Ks, env \in Envs :
          LET T == AsRep(A, rep)
          IN  Finish("eigenvalues", T, [k |-> k], env,
                     eigenvalues(T, k, env, type_not_supported))

CallEigenvectors ==
    /\ pc = "idle"
    /\ \E rep \in Reps, k \in Ks, right \in BOOLEAN, env \in Envs :
          LET T == AsRep(A, rep)
          IN  Finish("eigenvectors", T, [k |-> k, right |-> right], env,
                     eigenvectors(T, k, right, env, type_not_supported))

CallRdlDecomposition ==
    /\ pc = "idle"
    /\ \E rep \in Reps, k \in Ks, norm \in Norms, env \in Envs :
          LET T == AsRep(A, rep)
          IN  Finish("rdl_decomposition", T, [k |-> k, norm |-> norm], env,
                     rdl_decomposition(T, k, norm, env, type_not_supported))

CallExpectedCounts ==
    /\ pc = "idle"
    /\ \E rep \in Reps, p0 \in Vectors, N \in Ns :
          LET T == AsRep(A, rep)
          IN  Finish("expected_counts", T, [p0 |-> p0, N |-> N], Calm,
                     expected_counts(p0, T, N, Calm, type_not_supported))

CallExpectedCountsStationary ==
    /\ pc = "idle"
    /\ \E rep \in Reps, N \in Ns, mu \in MuArgs(A) :
          LET T == AsRep(A, rep)
          IN  Finish("expected_counts_stationary", T, [N |-> N, mu |-> mu], Calm,
                     expected_counts_stationary(T, N, mu, Calm, type_not_supported))

CallTpt ==
    /\ pc = "idle"
    /\ \E rep \in Reps, SA \in StateSets, SB \in StateSets, stallone_available \in BOOLEAN :
          LET T == AsRep(A, rep)
              r == tpt(T, SA, SB, stallone_available, Calm, type_not_supported)
          IN  /\ last' = [op |-> "tpt", T |-> T, args |-> [A |-> SA, B |-> SB],
                          env |-> [converges |-> TRUE,
                                   stallone_available |-> stallone_available],
                          calls |-> r.calls, outcome |-> r.outcome,
                          events |-> r.events]
              /\ type_not_supported' = r.module
              /\ pc' = "returned"
              /\ UNCHANGED <<A, shared_raised, lag, chunksize, nframes, pos,
                             lagged_chunks, final, param_finished, delivered>>

\* the caller goes on to its next call
Continue ==
    /\ pc = "returned"
    /\ pc' = "idle"
    /\ last' = NoCall
    /\ shared_raised' = (shared_raised \/ (last.outcome.kind = "raise"
                                            /\ last.outcome.exc.msg = TypeNotSupported.msg))
    /\ UNCHANGED <<A, type_not_supported, lag, chunksize, nframes, pos,
                   lagged_chunks, final, param_finished, delivered>>

Next ==
    \/ CallIsTransitionMatrix
    \/ CallIsRateMatrix
    \/ CallIsErgodic
    \/ CallIsReversible
    \/ CallStationaryDistribution
    \/ CallEigenvalues
    \/ CallEigenvectors
    \/ CallRdlDecomposition
    \/ CallExpectedCounts
    \/ CallExpectedCountsStationary
    \/ CallTpt
    \/ Continue

Spec == Init /\ [][Next]_vars

\* ---------------------------------------------------------------- parametrize
\* testTimeLaggedAccess: MemoryStorage(lag=lag), every stage at the chunk size
InitStorage ==
    /\ A = IdentityRows(Dim)
    /\ type_not_supported = TypeNotSupported
    /\ pc = "idle"
    /\ last = NoCall
    /\ shared_raised = FALSE
    /\ lag \in 1..MaxLag
    /\ chunksize \in (lag + 1)..MaxChunk
    /\ nframes \in (lag + chunksize)..(lag + chunksize + ExtraFrames)
    /\ pos = 0
    /\ lagged_chunks = <<>>
    /\ final = None
    /\ param_finished = FALSE
    /\ delivered = <<>>

ParametrizeChunk ==
    /\ pos < nframes
    /\ LET self == [lagged_chunks |-> lagged_chunks, final |-> final,
                    param_finished |-> param_finished]
           after == param_add_data(self, LaggedChunk, IsLastChunk)
       IN  /\ lagged_chunks' = after.lagged_chunks
           /\ final' = after.final
           /\ param_finished' = after.param_finished
    /\ delivered' = Append(delivered, [Y |-> LaggedChunk, last_chunk |-> IsLastChunk])
    /\ pos' = pos + chunksize
    /\ UNCHANGED <<A, type_not_supported, pc, last, shared_raised, lag, chunksize,
                   nframes>>

NextStorage == ParametrizeChunk

SpecStorage == InitStorage /\ [][NextStorage]_vars

\* ---------------------------------------------------------------- properties
Returned == pc = "returned"
Supported(T) == issparse(T) \/ isdense(T)

\* the facade operation named op, applied to the arguments of a call
Facade(op, T, args, env, tns) ==
    CASE op = "is_transition_matrix" -> is_transition_matrix(T, args.tol, env, tns)
      [] op = "is_rate_matrix" -> is_rate_matrix(T, args.tol, env, tns)
      [] op = "is_ergodic" -> is_ergodic(T, args.tol, env, tns)
      [] op = "is_reversible" -> is_reversible(T, args.mu, args.tol, env, tns)
      [] op = "stationary_distribution" -> stationary_distribution(T, env, tns)
      [] op = "eigenvalues" -> eigenvalues(T, args.k, env, tns)
      [] op = "eigenvectors" -> eigenvectors(T, args.k, args.right, env, tns)
      [] op = "rdl_decomposition" -> rdl_decomposition(T, args.k, args.norm, env, tns)
      [] op = "expected_counts" -> expected_counts(args.p0, T, args.N, env, tns)
      [] op = "tpt" -> tpt(T, args.A, args.B, env.stallone_available, env, tns)
      [] OTHER -> expected_counts_stationary(T, args.N, args.mu, env, tns)

\* the backend operation a facade operation stands for
BackendOp(op) ==
    CASE op = "is_transition_matrix" -> "assessment.is_transition_matrix"
      [] op = "is_rate_matrix" -> "assessment.is_rate_matrix"
      [] op = "is_ergodic" -> "assessment.is_ergodic"
      [] op = "is_reversible" -> "assessment.is_reversible"
      [] op = "stationary_distribution" -> "decomposition.mu"
      [] op = "eigenvalues" -> "decomposition.eigenvalues"
      [] op = "eigenvectors" -> "decomposition.eigenvectors"
      [] op = "rdl_decomposition" -> "decomposition.rdl_decomposition"
      [] op = "expected_counts" -> "expectations.expected_counts"
      [] OTHER -> "expectations.expected_counts_stationary"

\* the ten operations of the dispatch facade
FacadeOps ==
    {"is_transition_matrix", "is_rate_matrix", "is_ergodic", "is_reversible",
     "stationary_distribution", "eigenvalues", "eigenvectors", "rdl_decomposition",
     "expected_counts", "expected_counts_stationary"}

\* C1: a call with a sparse (dense) matrix is forwarded to exactly one operation of
\* the sparse (dense) backend, the one of the same name, with the caller's
\* arguments unchanged, and to nothing else.
C1_ForwardedToOwnBackend ==
    (Returned /\ last.op \in FacadeOps /\ Supported(last.T)) =>
        /\ Len(last.calls) = 1
        /\ last.calls[1].backend = last.T.kind
        /\ last.calls[1].op = BackendOp(last.op)
        /\ last.calls[1].args = [T |-> last.T] @@ last.args

\* C2: a call whose matrix is neither dense nor sparse ends by raising a TypeError;
\* no backend is called and nothing is returned.
C2_UnsupportedRaises ==
    (Returned /\ last.op \in FacadeOps /\ ~Supported(last.T)) =>
        /\ last.outcome.kind = "raise"
        /\ last.outcome.exc.type = "TypeError"
        /\ last.calls = <<>>

\* C3: is_ergodic of a dense or sparse T returns the boolean "the graph of the
\* entries of T above tol is strongly connected and aperiodic".
C3_IsErgodicReturnsTruth ==
    (Returned /\ last.op = "is_ergodic" /\ Supported(last.T)) =>
        /\ last.outcome.kind = "return"
        /\ last.outcome.value =
               BoolV(LET E == Edges(Sparse(A), last.args.tol)
                     IN  StronglyConnected(E, Dim) /\ Period(E, Dim) = 1)

\* C4: is_reversible of a dense or sparse T with a supplied mu returns the boolean
\* "mu[i]*T[i,j] = mu[j]*T[j,i] within tol for all i, j".
C4_IsReversibleReturnsTruth ==
    (Returned /\ last.op = "is_reversible" /\ Supported(last.T)
              /\ last.args.mu.t = "vector") =>
        /\ last.outcome.kind = "return"
        /\ last.outcome.value =
               BoolV(\A i \in Idx(Dim) : \A j \in Idx(Dim) :
                        RLe(RAbs(RSub(RMul(last.args.mu.v[i], A[i][j]),
                                      RMul(last.args.mu.v[j], A[j][i]))),
                            last.args.tol))

\* C5: expected_counts_stationary of a valid dense or sparse transition matrix P, a
\* non-negative N and a supplied mu returns EC with EC[i,j] = N * mu[i] * P[i,j].
C5_StationaryCountsClosedForm ==
    (Returned /\ last.op = "expected_counts_stationary" /\ Supported(last.T)
              /\ last.args.mu.t = "vector" /\ A \in StochasticMatrices) =>
        /\ last.outcome.kind = "return"
        /\ last.outcome.value.t = "matrix"
        /\ Rows(last.outcome.value.v) =
               MatTimes(RInt(last.args.N), DiagMat(last.args.mu.v, A))

MatMul(X, Y) ==
    [i \in Idx(Len(X)) |-> [j \in Idx(Len(X)) |->
        RSumSeq([k \in Idx(Len(X)) |-> RMul(X[i][k], Y[k][j])])]]

RECURSIVE MatPow(_, _)
MatPow(X, k) == IF k = 0 THEN IdentityRows(Len(X)) ELSE MatMul(MatPow(X, k - 1), X)

\* sum over k = 0..N-1 of diag(p0 T^k) T, with the powers of T written out
RECURSIVE CountsSum(_, _, _)
CountsSum(p0, X, N) ==
    IF N = 0 THEN ZeroRows(Len(X))
    ELSE MatAdd(CountsSum(p0, X, N - 1), DiagMat(VecMat(p0, MatPow(X, N - 1)), X))

\* C6: expected_counts(p0, T, N) of a dense or sparse T returns the sum over
\* k = 0..N-1 of diag(p0 T^k) T, the zero matrix for N = 0, in the storage
\* representation of T.
C6_ExpectedCountsSum ==
    (Returned /\ last.op = "expected_counts" /\ Supported(last.T)) =>
        /\ last.outcome.kind = "return"
        /\ last.outcome.value.t = "matrix"
        /\ last.outcome.value.v.kind = last.T.kind
        /\ Rows(last.outcome.value.v) = CountsSum(last.args.p0, A, last.args.N)
        /\ last.args.N = 0 => Rows(last.outcome.value.v) = ZeroRows(Dim)

C6_Witness ==
    /\ Returned
    /\ last.op = "expected_counts"
    /\ issparse(last.T)
    /\ last.args.N = 2
    /\ last.outcome.kind = "return"
    /\ last.outcome.value.v.kind = "sparse"
    /\ \E i \in Idx(Dim) : \E j \in Idx(Dim) :
          i # j /\ RLt(RZero, Rows(last.outcome.value.v)[i][j])
                /\ Rows(last.outcome.value.v)[i][j] # DiagMat(last.args.p0, A)[i][j]

\* C7: is_transition_matrix, is_reversible and stationary_distribution end the same
\* way for the dense and the sparse representation of one matrix: equal booleans
\* for the two predicates, equal vectors for the stationary distribution.
C7_DenseSparseAgree ==
    (Returned /\ issparse(last.T)
              /\ last.op \in {"is_transition_matrix", "is_reversible",
                              "stationary_distribution"}) =>
        LET d == Facade(last.op, Dense(A), last.args, last.env,
                        type_not_supported).outcome
        IN  /\ d = last.outcome
            /\ (d.kind = "return" /\ last.op # "stationary_distribution")
                   => d.value.t = "bool"
            /\ (d.kind = "return" /\ last.op = "stationary_distribution")
                   => d.value.t = "vector"

\* C8: a call changes neither the module-level exception object nor the caller's
\* matrix, and it ends as the facade ends on its arguments in a freshly loaded
\* module, whatever was called before.
C8_CallsLeaveNoTrace ==
    [][/\ type_not_supported' = type_not_supported
       /\ A' = A
       /\ pc' = "returned" =>
             /\ last'.T \in {AsRep(A, rep) : rep \in Reps}
             /\ last'.outcome = Facade(last'.op, last'.T, last'.args, last'.env,
                                       TypeNotSupported).outcome]_vars

C8_Witness ==
    /\ Returned
    /\ shared_raised
    /\ last.op = "is_rate_matrix"
    /\ last.outcome.kind = "raise"
    /\ last.outcome.exc = TypeNotSupported

\* C9: a call invokes at most one backend operation, once, and when that
\* invocation fails the call ends with that failure.
C9_NoRetry ==
    Returned =>
        /\ Len(last.calls) <= 1
        /\ (Len(last.calls) = 1 /\ Invoke(last.calls[1], last.env).kind = "raise")
               => last.outcome = Invoke(last.calls[1], last.env)

C9_Witness ==
    /\ Returned
    /\ last.op = "eigenvalues"
    /\ Len(last.calls) = 1
    /\ last.outcome.kind = "raise"
    /\ last.outcome.exc = ConvergenceError

Passes(T) ==
    /\ Supported(T)
    /\ \A i \in Idx(Dim) : RSumSeq(A[i]) = ROne
    /\ \A i \in Idx(Dim) : \A j \in Idx(Dim) : RLe(RZero, A[i][j])

Among(x, events) == \E i \in 1..Len(events) : events[i] = x

\* C11: tpt checks is_transition_matrix(T) before anything else.  When the check
\* is False it raises ValueError, and the solver is neither asked for nor a TPT
\* object made; when T is neither dense nor sparse the TypeError of the check is
\* raised; a TPT object is made only when T passed and the solver is available;
\* when T passed and the solver is unavailable it raises NotImplementedError.
C11_TptChecksFirst ==
    (Returned /\ last.op = "tpt") =>
        /\ last.events # <<>> /\ last.events[1] = "is_transition_matrix"
        /\ (Supported(last.T) /\ ~Passes(last.T)) =>
              /\ last.outcome.kind = "raise"
              /\ last.outcome.exc.type = "ValueError"
              /\ ~Among("stallone_available", last.events)
              /\ ~Among("TPT", last.events)
        /\ ~Supported(last.T) =>
              /\ last.outcome.kind = "raise"
              /\ last.outcome.exc.type = "TypeError"
              /\ last.events = <<"is_transition_matrix">>
        /\ Among("TPT", last.events) <=>
              (Passes(last.T) /\ last.env.stallone_available)
        /\ Among("TPT", last.events) <=>
              (last.outcome.kind = "return"
                  /\ last.outcome.value = TPT(last.T, last.args.A, last.args.B))
        /\ (Passes(last.T) /\ ~last.env.stallone_available) =>
              /\ last.outcome.kind = "raise"
              /\ last.outcome.exc.type = "NotImplementedError"

C11_Witness ==
    /\ Returned
    /\ last.op = "tpt"
    /\ isdense(last.T)
    /\ ~last.env.stallone_available
    /\ last.outcome.kind = "raise"
    /\ last.outcome.exc.type = "ValueError"
    /\ last.events = <<"is_transition_matrix">>

====
